---- MODULE Spec2Model ----
(***************************************************************************)
(* Model of match_slots.py: cross_match_observations (the greedy matcher)  *)
(* followed by adjust_observational_times (the window adjuster), as main() *)
(* chains them.  Timestamps are whole seconds since midnight of day 0; a   *)
(* data frame is a sequence of rows, a row a function from column name to  *)
(* value.  Slot indices are 1-based positions in slots_df (pandas' default *)
(* RangeIndex shifted by one).                                             *)
(***************************************************************************)
EXTENDS Integers, Sequences, FiniteSets, TLC

\* ------------------------------------------------------------------ bounds
MaxPlan == 2
MaxSlots == 2
MaxCalls == 3

\* ------------------------------------------------------------------ values
\* None / NaT / NaN: every null pandas value (pd.notna is false on it).
Null == -1

Day == 24 * 3600

Abs(x) == IF x < 0 THEN -x ELSE x

\* pd.to_datetime of "day HH:MM:SS".
Timestamp(d, h, m, s) == d * Day + h * 3600 + m * 60 + s

\* Timestamp.hour, Timestamp.minute
Hour(t) == (t % Day) \div 3600
Minute(t) == (t % 3600) \div 60
DateOf(t) == t \div Day

\* timedelta(hours=t.hour, minutes=t.minute), in seconds: seconds are dropped.
TimeOfDay(t) == Hour(t) * 3600 + Minute(t) * 60

\* Timestamp.replace(hour=h, minute=m): date and seconds are kept.
Replace(t, h, m) == DateOf(t) * Day + h * 3600 + m * 60 + (t % 60)

\* ------------------------------------------------------------------ inputs
PlanColumns == {"StartTime", "StopTime", "Target"}

\* The rows a plan is drawn from (StartTime <= StopTime).
PlanRows ==
  { [StartTime |-> Timestamp(10, 22, 0, 0), StopTime |-> Timestamp(11, 2, 0, 0), Target |-> 101],
    [StartTime |-> Timestamp(10, 9, 0, 0), StopTime |-> Timestamp(10, 17, 0, 0), Target |-> 102],
    [StartTime |-> Timestamp(10, 23, 0, 0), StopTime |-> Timestamp(11, 1, 0, 0), Target |-> 103],
    [StartTime |-> Timestamp(10, 10, 0, 0), StopTime |-> Timestamp(10, 10, 30, 0), Target |-> 104] }

\* The (startTime, stopTime, extra column value) a slot table is drawn from.
SlotTimes ==
  { <<Timestamp(10, 21, 30, 0), Timestamp(11, 3, 0, 0), 201>>,
    <<Timestamp(10, 11, 0, 30), Timestamp(10, 20, 0, 0), 202>>,
    <<Timestamp(10, 11, 1, 0), Timestamp(10, 19, 0, 0), 203>>,
    <<Timestamp(12, 22, 0, 0), Timestamp(13, 1, 0, 0), 204>>,
    <<Timestamp(8, 22, 0, 0), Timestamp(9, 2, 0, 0), 205>> }

\* The name of the slot table's additional column: one that the plan table
\* has too, or one of its own.
SlotExtraColumns == {"Target", "Receiver"}

SlotColumns(extra) == {"startTime", "stopTime", extra}

SlotRow(s, extra) ==
  [c \in SlotColumns(extra) |->
     IF c = "startTime" THEN s[1] ELSE IF c = "stopTime" THEN s[2] ELSE s[3]]

SeqsUpTo(S, n) == UNION { [1..k -> S] : k \in 0..n }

\* (hour_tolerance, day_tolerance): the defaults and a tighter value of each.
Tolerances == { <<2, 3>>, <<1, 3>>, <<2, 1>> }

\* ------------------------------------------------------------------ state
VARIABLES
  plan_df, slots_df, slot_columns, hour_tolerance, day_tolerance,
  pc, obs_i, matches, used_slots, best_slot_idx,
  matches_df, row_i, candidate_times, adjusted_start_times, adjusted_end_times,
  output,
  call, called_with, first_run

vars == << plan_df, slots_df, slot_columns, hour_tolerance, day_tolerance,
           pc, obs_i, matches, used_slots, best_slot_idx,
           matches_df, row_i, candidate_times, adjusted_start_times,
           adjusted_end_times, output, call, called_with, first_run >>

inputs == << plan_df, slots_df, slot_columns, hour_tolerance, day_tolerance >>

\* The caller's side of main(): the number of the running call, the arguments
\* it was called with, and the arguments and output of the first call once it
\* has returned.
history == << call, called_with, first_run >>

\* ------------------------------------------------------------------ matcher
\* Line 49 left out: only the slot's start is held against the window.
InDateRange_StartOnly(obs, slot, dt) ==
  slot["startTime"] >= obs["StartTime"] - dt * Day

\* Lines 43-50: the calendar filter.
InDateRange(obs, slot, dt) ==
  /\ slot["startTime"] >= obs["StartTime"] - dt * Day
  /\ slot["stopTime"] <= obs["StopTime"] + dt * Day

\* The filter of line 51 left out: used slots stay candidates.
potential_slots_KeepUsed(obs, slots, used, dt) ==
  { k \in DOMAIN slots : InDateRange(obs, slots[k], dt) }

\* Lines 47-51: indices of the slots in the date range that are not used yet.
potential_slots(obs, slots, used, dt) ==
  { k \in DOMAIN slots : InDateRange(obs, slots[k], dt) } \ used

\* Line 61 taking the shorter way round the clock.
start_time_difference_Wrapped(obs, slot) ==
  LET d == Abs(TimeOfDay(obs["StartTime"]) - TimeOfDay(slot["startTime"]))
  IN IF d <= Day - d THEN d ELSE Day - d

\* Lines 56, 58, 61.
start_time_difference(obs, slot) ==
  Abs(TimeOfDay(obs["StartTime"]) - TimeOfDay(slot["startTime"]))

\* Lines 57, 59, 62.
end_time_difference(obs, slot) ==
  Abs(TimeOfDay(obs["StopTime"]) - TimeOfDay(slot["stopTime"]))

\* Line 64 with strict comparisons.
WithinHourTolerance_Strict(obs, slot, ht) ==
  \/ start_time_difference(obs, slot) < ht * 3600
  \/ end_time_difference(obs, slot) < ht * 3600

\* Line 64 with "and" for "or".
WithinHourTolerance_BothEdges(obs, slot, ht) ==
  /\ start_time_difference(obs, slot) <= ht * 3600
  /\ end_time_difference(obs, slot) <= ht * 3600

\* Line 64: difference / 3600 <= hour_tolerance, on either edge.
WithinHourTolerance(obs, slot, ht) ==
  \/ start_time_difference(obs, slot) <= ht * 3600
  \/ end_time_difference(obs, slot) <= ht * 3600

\* Lines 54-65.
filtered_slots(obs, slots, used, ht, dt) ==
  { k \in potential_slots(obs, slots, used, dt) : WithinHourTolerance(obs, slots[k], ht) }

\* Lines 70-72: full-timestamp distance of the starts, in seconds.
time_diff(obs, slot) == Abs(slot["startTime"] - obs["StartTime"])

\* Line 73 taking the last minimum instead of the first.
idxmin_Last(obs, slots, filtered) ==
  CHOOSE k \in filtered :
    \A j \in filtered :
      \/ time_diff(obs, slots[k]) < time_diff(obs, slots[j])
      \/ time_diff(obs, slots[k]) = time_diff(obs, slots[j]) /\ k >= j

\* Line 73: idxmin returns the label of the first minimum, and the filtered
\* frame keeps the slot table's order.
idxmin(obs, slots, filtered) ==
  CHOOSE k \in filtered :
    \A j \in filtered :
      \/ time_diff(obs, slots[k]) < time_diff(obs, slots[j])
      \/ time_diff(obs, slots[k]) = time_diff(obs, slots[j]) /\ k <= j

\* Lines 77-78: match = obs.to_dict(); match.update(best_slot.to_dict()).
MatchedRecord(obs, slot) ==
  [c \in DOMAIN obs \cup DOMAIN slot |-> IF c \in DOMAIN slot THEN slot[c] ELSE obs[c]]

\* Lines 84-86 left out: the record is the observation alone.
UnmatchedRecord_NoFill(obs, columns) == obs

\* Lines 83-86: the slot columns the observation does not have become None.
UnmatchedRecord(obs, columns) ==
  [c \in DOMAIN obs \cup columns |-> IF c \in DOMAIN obs THEN obs[c] ELSE Null]

\* Line 89: pd.DataFrame(list of dicts): the columns are the union of the
\* keys, a key a dict lacks is null in its row.
DataFrameColumns(records) == UNION { DOMAIN records[i] : i \in DOMAIN records }

DataFrameRow(records, i) ==
  [c \in DataFrameColumns(records) |->
     IF c \in DOMAIN records[i] THEN records[i][c] ELSE Null]

\* Line 89 keeping only the matched records (an inner join).
DataFrame_MatchedOnly(records) ==
  LET IsMatched(r) == r["startTime"] # Null
  IN SelectSeq([i \in DOMAIN records |-> DataFrameRow(records, i)], IsMatched)

DataFrame(records) == [i \in DOMAIN records |-> DataFrameRow(records, i)]

\* ------------------------------------------------------------------ adjuster
\* Line 114.
notna(v) == v # Null

\* Line 115.
CandidateStart(row) ==
  Replace(row["startTime"], Hour(row["StartTime"]), Minute(row["StartTime"]))

\* Line 116 with <= for <.
CrossesMidnight_OrEqual(row) ==
  \/ Hour(row["StopTime"]) <= Hour(row["StartTime"])
  \/ Hour(row["StopTime"]) = 0 /\ Hour(row["StartTime"]) # 0

\* Line 116.
CrossesMidnight(row) ==
  \/ Hour(row["StopTime"]) < Hour(row["StartTime"])
  \/ Hour(row["StopTime"]) = 0 /\ Hour(row["StartTime"]) # 0

\* Line 119 alone: the end always on the slot's start date.
CandidateEnd_SameDay(row) ==
  Replace(row["startTime"], Hour(row["StopTime"]), Minute(row["StopTime"]))

\* Lines 116-119.
CandidateEnd(row) ==
  IF CrossesMidnight(row)
    THEN Replace(row["startTime"] + Day, Hour(row["StopTime"]), Minute(row["StopTime"]))
    ELSE Replace(row["startTime"], Hour(row["StopTime"]), Minute(row["StopTime"]))

Max(a, b) == IF a >= b THEN a ELSE b
Min(a, b) == IF a <= b THEN a ELSE b

\* Line 121 with min for max.
ClampStart_Min(candidate, slot_start) == Min(candidate, slot_start)

\* Lines 121-122.
ClampStart(candidate, slot_start) == Max(candidate, slot_start)
ClampEnd(candidate, slot_end) == Min(candidate, slot_end)

\* Line 129 appending the end instead of None.
ValidWindow_HalfNull(actual_start, actual_end) ==
  IF actual_start < actual_end THEN <<actual_start, actual_end>> ELSE <<Null, actual_end>>

\* Lines 124-129: the pair appended to the two lists.
ValidWindow(actual_start, actual_end) ==
  IF actual_start < actual_end THEN <<actual_start, actual_end>> ELSE <<Null, Null>>

\* Lines 115-122 clamping the plan's own window to the slot instead of the
\* plan's hours laid on the slot's date.
AdjustedWindow_PlanWindow(row) ==
  IF notna(row["startTime"]) /\ notna(row["stopTime"])
    THEN ValidWindow(ClampStart(row["StartTime"], row["startTime"]),
                     ClampEnd(row["StopTime"], row["stopTime"]))
    ELSE <<Null, Null>>

\* Lines 114-132 for one row.
AdjustedWindow(row) ==
  IF notna(row["startTime"]) /\ notna(row["stopTime"])
    THEN ValidWindow(ClampStart(CandidateStart(row), row["startTime"]),
                     ClampEnd(CandidateEnd(row), row["stopTime"]))
    ELSE <<Null, Null>>

\* Lines 134-135, also blanking the slot times of a row without a window.
WithActualTimes_BlankSlot(df, starts, ends) ==
  [i \in DOMAIN df |->
     [c \in DOMAIN df[i] \cup {"ActualStartTime", "ActualEndTime"} |->
        IF c = "ActualStartTime" THEN starts[i]
        ELSE IF c = "ActualEndTime" THEN ends[i]
        ELSE IF c \in {"startTime", "stopTime"} /\ starts[i] = Null THEN Null
        ELSE df[i][c]]]

\* Lines 134-135: the two lists become columns.
WithActualTimes(df, starts, ends) ==
  [i \in DOMAIN df |->
     [c \in DOMAIN df[i] \cup {"ActualStartTime", "ActualEndTime"} |->
        IF c = "ActualStartTime" THEN starts[i]
        ELSE IF c = "ActualEndTime" THEN ends[i]
        ELSE df[i][c]]]

\* ------------------------------------------------------------------ behaviour
Init ==
  /\ plan_df \in SeqsUpTo(PlanRows, MaxPlan)
  /\ slot_columns \in { SlotColumns(e) : e \in SlotExtraColumns }
  /\ \E e \in SlotExtraColumns :
       /\ slot_columns = SlotColumns(e)
       /\ \E ss \in SeqsUpTo(SlotTimes, MaxSlots) :
            slots_df = [k \in DOMAIN ss |-> SlotRow(ss[k], e)]
  /\ \E t \in Tolerances : hour_tolerance = t[1] /\ day_tolerance = t[2]
  /\ pc = "match"
  /\ obs_i = 1
  /\ matches = << >>
  /\ used_slots = {}
  /\ best_slot_idx = << >>
  /\ matches_df = << >>
  /\ row_i = 1
  /\ candidate_times = << >>
  /\ adjusted_start_times = << >>
  /\ adjusted_end_times = << >>
  /\ output = << >>
  /\ call = 1
  /\ called_with = inputs
  /\ first_run = << >>

\* The loop of lines 41-87 marking the slot used only when the window it
\* gives is not degenerate.
MatchObservation_ReleaseDegenerate ==
  /\ pc = "match"
  /\ obs_i <= Len(plan_df)
  /\ LET obs == plan_df[obs_i]
         filtered == filtered_slots(obs, slots_df, used_slots, hour_tolerance, day_tolerance)
     IN IF filtered # {}
          THEN LET best == idxmin(obs, slots_df, filtered)
                   match == MatchedRecord(obs, slots_df[best])
               IN /\ matches' = Append(matches, match)
                  /\ used_slots' = IF AdjustedWindow(match) = <<Null, Null>>
                                     THEN used_slots
                                     ELSE used_slots \cup {best}
                  /\ best_slot_idx' = Append(best_slot_idx, best)
          ELSE /\ matches' = Append(matches, UnmatchedRecord(obs, slot_columns))
               /\ used_slots' = used_slots
               /\ best_slot_idx' = Append(best_slot_idx, 0)
  /\ obs_i' = obs_i + 1
  /\ UNCHANGED history
  /\ UNCHANGED << inputs, pc, matches_df, row_i, candidate_times,
                  adjusted_start_times, adjusted_end_times, output >>

\* One iteration of the loop of cross_match_observations (lines 41-87).
\* best_slot_idx keeps, per observation, the index chosen at line 73 (0 when
\* the else branch ran).
MatchObservation ==
  /\ pc = "match"
  /\ obs_i <= Len(plan_df)
  /\ LET obs == plan_df[obs_i]
         filtered == filtered_slots(obs, slots_df, used_slots, hour_tolerance, day_tolerance)
     IN IF filtered # {}
          THEN LET best == idxmin(obs, slots_df, filtered)
               IN /\ matches' = Append(matches, MatchedRecord(obs, slots_df[best]))
                  /\ used_slots' = used_slots \cup {best}
                  /\ best_slot_idx' = Append(best_slot_idx, best)
          ELSE /\ matches' = Append(matches, UnmatchedRecord(obs, slot_columns))
               /\ used_slots' = used_slots
               /\ best_slot_idx' = Append(best_slot_idx, 0)
  /\ obs_i' = obs_i + 1
  /\ UNCHANGED history
  /\ UNCHANGED << inputs, pc, matches_df, row_i, candidate_times,
                  adjusted_start_times, adjusted_end_times, output >>

\* Line 89, and main() handing the frame to adjust_observational_times.
MatchReturn ==
  /\ pc = "match"
  /\ obs_i > Len(plan_df)
  /\ matches_df' = DataFrame(matches)
  /\ pc' = "adjust"
  /\ UNCHANGED history
  /\ UNCHANGED << inputs, obs_i, matches, used_slots, best_slot_idx, row_i,
                  candidate_times, adjusted_start_times, adjusted_end_times, output >>

\* One iteration of the loop of adjust_observational_times (lines 105-132).
\* Reading a column the frame does not have raises KeyError.  candidate_times
\* keeps the window of lines 115-119 before it is clamped.
AdjustRow ==
  /\ pc = "adjust"
  /\ row_i <= Len(matches_df)
  /\ LET row == matches_df[row_i]
     IN IF {"StartTime", "StopTime", "startTime", "stopTime"} \subseteq DOMAIN row
          THEN /\ candidate_times' =
                    Append(candidate_times,
                           IF notna(row["startTime"]) /\ notna(row["stopTime"])
                             THEN <<CandidateStart(row), CandidateEnd(row)>>
                             ELSE <<Null, Null>>)
               /\ adjusted_start_times' = Append(adjusted_start_times, AdjustedWindow(row)[1])
               /\ adjusted_end_times' = Append(adjusted_end_times, AdjustedWindow(row)[2])
               /\ row_i' = row_i + 1
               /\ pc' = pc
          ELSE /\ pc' = "error"
               /\ UNCHANGED << candidate_times, adjusted_start_times,
                               adjusted_end_times, row_i >>
  /\ UNCHANGED history
  /\ UNCHANGED << inputs, obs_i, matches, used_slots, best_slot_idx, matches_df, output >>

\* Lines 134-136, and main() writing the frame out.
AdjustReturn ==
  /\ pc = "adjust"
  /\ row_i > Len(matches_df)
  /\ output' = WithActualTimes(matches_df, adjusted_start_times, adjusted_end_times)
  /\ pc' = "done"
  /\ UNCHANGED history
  /\ UNCHANGED << inputs, obs_i, matches, used_slots, best_slot_idx, matches_df,
                  row_i, candidate_times, adjusted_start_times, adjusted_end_times >>

\* Another data set, for a call between two calls on the same data: the one
\* plan row and the one slot of the end-to-end scenario, default tolerances.
OtherData ==
  << << [StartTime |-> Timestamp(10, 22, 0, 0), StopTime |-> Timestamp(11, 2, 0, 0),
         Target |-> 101] >>,
     << SlotRow(<<Timestamp(10, 21, 30, 0), Timestamp(11, 3, 0, 0), 201>>, "Receiver") >>,
     SlotColumns("Receiver"), 2, 3 >>

\* The arguments of the next call: those of the first call again, or, after
\* a call on them, the other data set.
NextArguments ==
  LET first == IF call = 1 THEN called_with ELSE first_run[1]
  IN IF called_with = first THEN {first, OtherData} ELSE {first}

\* main() called again keeping the used set of the call before (used_slots
\* as a module-level set instead of the local of line 39).
NewCall_KeepUsed ==
  /\ pc = "done"
  /\ call < MaxCalls
  /\ first_run' = IF call = 1 THEN <<called_with, output>> ELSE first_run
  /\ \E args \in NextArguments :
       /\ called_with' = args
       /\ plan_df' = args[1]
       /\ slots_df' = args[2]
       /\ slot_columns' = args[3]
       /\ hour_tolerance' = args[4]
       /\ day_tolerance' = args[5]
  /\ call' = call + 1
  /\ pc' = "match"
  /\ obs_i' = 1
  /\ matches' = << >>
  /\ used_slots' = used_slots
  /\ best_slot_idx' = << >>
  /\ matches_df' = << >>
  /\ row_i' = 1
  /\ candidate_times' = << >>
  /\ adjusted_start_times' = << >>
  /\ adjusted_end_times' = << >>
  /\ output' = << >>

\* main() called again after it returned (lines 147-149): the caller keeps
\* what the first call returned, and the new call of
\* cross_match_observations starts with matches = [] and used_slots = set()
\* (lines 38-39), the new call of adjust_observational_times with empty lists
\* (lines 102-103).
NewCall ==
  /\ pc = "done"
  /\ call < MaxCalls
  /\ first_run' = IF call = 1 THEN <<called_with, output>> ELSE first_run
  /\ \E args \in NextArguments :
       /\ called_with' = args
       /\ plan_df' = args[1]
       /\ slots_df' = args[2]
       /\ slot_columns' = args[3]
       /\ hour_tolerance' = args[4]
       /\ day_tolerance' = args[5]
  /\ call' = call + 1
  /\ pc' = "match"
  /\ obs_i' = 1
  /\ matches' = << >>
  /\ used_slots' = {}
  /\ best_slot_idx' = << >>
  /\ matches_df' = << >>
  /\ row_i' = 1
  /\ candidate_times' = << >>
  /\ adjusted_start_times' = << >>
  /\ adjusted_end_times' = << >>
  /\ output' = << >>

Next == MatchObservation \/ MatchReturn \/ AdjustRow \/ AdjustReturn

\* Repeated calls: the first on a plan over PlanRows and a slot table over
\* CallSlotTimes with the default tolerances.
CallSlotTimes ==
  { <<Timestamp(10, 21, 30, 0), Timestamp(11, 3, 0, 0), 201>>,
    <<Timestamp(10, 11, 0, 30), Timestamp(10, 20, 0, 0), 202>>,
    <<Timestamp(12, 22, 0, 0), Timestamp(13, 1, 0, 0), 204>> }

InitCalls ==
  /\ plan_df \in SeqsUpTo(PlanRows, MaxPlan)
  /\ slot_columns = SlotColumns("Receiver")
  /\ \E ss \in SeqsUpTo(CallSlotTimes, MaxSlots) :
       slots_df = [k \in DOMAIN ss |-> SlotRow(ss[k], "Receiver")]
  /\ hour_tolerance = 2
  /\ day_tolerance = 3
  /\ pc = "match"
  /\ obs_i = 1
  /\ matches = << >>
  /\ used_slots = {}
  /\ best_slot_idx = << >>
  /\ matches_df = << >>
  /\ row_i = 1
  /\ candidate_times = << >>
  /\ adjusted_start_times = << >>
  /\ adjusted_end_times = << >>
  /\ output = << >>
  /\ call = 1
  /\ called_with = inputs
  /\ first_run = << >>

\* Runs around midnight: plan rows late in the evening, slots just after
\* midnight, on the day before and on a later day, and hour tolerances up to
\* 23.
MidnightPlanRows ==
  { [StartTime |-> Timestamp(10, 23, 30, 0), StopTime |-> Timestamp(10, 23, 45, 0), Target |-> 105],
    [StartTime |-> Timestamp(10, 22, 0, 0), StopTime |-> Timestamp(11, 2, 0, 0), Target |-> 101],
    [StartTime |-> Timestamp(10, 23, 0, 0), StopTime |-> Timestamp(11, 1, 0, 0), Target |-> 103] }

MidnightSlotTimes ==
  { <<Timestamp(11, 0, 30, 0), Timestamp(11, 0, 40, 0), 206>>,
    <<Timestamp(9, 23, 0, 0), Timestamp(10, 23, 30, 0), 207>>,
    <<Timestamp(10, 21, 30, 0), Timestamp(11, 3, 0, 0), 201>>,
    <<Timestamp(12, 22, 0, 0), Timestamp(13, 1, 0, 0), 204>> }

MidnightTolerances == { <<2, 3>>, <<22, 3>>, <<23, 3>> }

InitMidnight ==
  /\ plan_df \in SeqsUpTo(MidnightPlanRows, MaxPlan)
  /\ slot_columns = SlotColumns("Receiver")
  /\ \E ss \in SeqsUpTo(MidnightSlotTimes, MaxSlots) :
       slots_df = [k \in DOMAIN ss |-> SlotRow(ss[k], "Receiver")]
  /\ \E t \in MidnightTolerances : hour_tolerance = t[1] /\ day_tolerance = t[2]
  /\ pc = "match"
  /\ obs_i = 1
  /\ matches = << >>
  /\ used_slots = {}
  /\ best_slot_idx = << >>
  /\ matches_df = << >>
  /\ row_i = 1
  /\ candidate_times = << >>
  /\ adjusted_start_times = << >>
  /\ adjusted_end_times = << >>
  /\ output = << >>
  /\ call = 1
  /\ called_with = inputs
  /\ first_run = << >>

SpecMidnight == InitMidnight /\ [][Next]_vars

NextCalls == MatchObservation \/ MatchReturn \/ AdjustRow \/ AdjustReturn \/ NewCall

SpecCalls == InitCalls /\ [][NextCalls]_vars

Spec == Init /\ [][Next]_vars

TypeOK ==
  /\ pc \in {"match", "adjust", "done", "error"}
  /\ obs_i \in 1..(Len(plan_df) + 1)
  /\ row_i \in 1..(Len(matches_df) + 1)
  /\ used_slots \subseteq DOMAIN slots_df
  /\ Len(best_slot_idx) = Len(matches)
\* ------------------------------------------------------------------ claims
\* The slots consumed before observation i had its turn.
UsedBefore(i) == { best_slot_idx[j] : j \in 1..(i - 1) } \ {0}

\* Slot k lies in the calendar window of observation i.
InCalendarWindow(i, k) ==
  /\ slots_df[k]["startTime"] >= plan_df[i]["StartTime"] - day_tolerance * Day
  /\ slots_df[k]["stopTime"] <= plan_df[i]["StopTime"] + day_tolerance * Day

\* Hour+minute distance, in minutes, of the start edges and of the stop edges.
MinuteOfDay(t) == (t % Day) \div 60
StartMinutesApart(i, k) ==
  Abs(MinuteOfDay(plan_df[i]["StartTime"]) - MinuteOfDay(slots_df[k]["startTime"]))
StopMinutesApart(i, k) ==
  Abs(MinuteOfDay(plan_df[i]["StopTime"]) - MinuteOfDay(slots_df[k]["stopTime"]))

\* The slots that were unused at the turn of observation i and pass both filters.
Eligible(i) ==
  { k \in DOMAIN slots_df \ UsedBefore(i) :
      /\ InCalendarWindow(i, k)
      /\ \/ StartMinutesApart(i, k) <= 60 * hour_tolerance
         \/ StopMinutesApart(i, k) <= 60 * hour_tolerance }

StartDistance(i, k) == Abs(slots_df[k]["startTime"] - plan_df[i]["StartTime"])

\* C1: after any prefix of the plan has been processed, no slot index is
\* assigned to more than one observation, and the used set is exactly the
\* set of assigned indices.
C1_SlotExclusivity ==
  /\ \A i, j \in DOMAIN best_slot_idx :
       (i # j /\ best_slot_idx[i] # 0) => best_slot_idx[i] # best_slot_idx[j]
  /\ used_slots = { best_slot_idx[i] : i \in DOMAIN best_slot_idx } \ {0}

\* C1 witness: two observations are matched, and the slot the first one took
\* was in range and in tolerance for the second one too.
C1_Witness ==
  /\ Len(best_slot_idx) = 2
  /\ best_slot_idx[1] # 0
  /\ best_slot_idx[2] # 0
  /\ best_slot_idx[1] # best_slot_idx[2]
  /\ InCalendarWindow(2, best_slot_idx[1])
  /\ StartMinutesApart(2, best_slot_idx[1]) <= 60 * hour_tolerance
  /\ StartDistance(2, best_slot_idx[1]) < StartDistance(2, best_slot_idx[2])

\* C2: one record per plan row, in plan order: during matching the i-th match
\* record carries the i-th plan row's StartTime/StopTime, and at the end the
\* output has as many records as the plan has rows, the i-th carrying the
\* i-th plan row's StartTime/StopTime, matched or not.
C2_OrderPreservation ==
  /\ Len(matches) = obs_i - 1
  /\ \A i \in DOMAIN matches :
       /\ matches[i]["StartTime"] = plan_df[i]["StartTime"]
       /\ matches[i]["StopTime"] = plan_df[i]["StopTime"]
  /\ pc = "done" =>
       /\ Len(output) = Len(plan_df)
       /\ \A i \in DOMAIN output :
            /\ output[i]["StartTime"] = plan_df[i]["StartTime"]
            /\ output[i]["StopTime"] = plan_df[i]["StopTime"]

\* C2 witness: a finished run over two different rows, the first unmatched
\* and the second matched.
C2_Witness ==
  /\ pc = "done"
  /\ Len(plan_df) = 2
  /\ plan_df[1] # plan_df[2]
  /\ best_slot_idx[1] = 0
  /\ best_slot_idx[2] # 0
  /\ Len(output) = 2

\* C3: the slot chosen for an observation is an eligible slot (unused at its
\* turn, passing both filters) at minimal full-timestamp distance of the
\* starts, and among the eligible slots at that distance it is the first of
\* the slot table.
C3_BestFitTieBreak ==
  \A i \in DOMAIN best_slot_idx :
    Eligible(i) # {} =>
      /\ best_slot_idx[i] \in Eligible(i)
      /\ \A k \in Eligible(i) :
           /\ StartDistance(i, best_slot_idx[i]) <= StartDistance(i, k)
           /\ StartDistance(i, best_slot_idx[i]) = StartDistance(i, k)
                => best_slot_idx[i] <= k

\* C3 witness: two different eligible slots were equidistant from the
\* observation, nothing was closer, and the earlier one in the table was taken.
C3_Witness ==
  \E i \in DOMAIN best_slot_idx :
    \E k1, k2 \in Eligible(i) :
      /\ k1 < k2
      /\ slots_df[k1]["startTime"] # slots_df[k2]["startTime"]
      /\ StartDistance(i, k1) = StartDistance(i, k2)
      /\ best_slot_idx[i] = k1

\* C4: a slot that was unused and inside the calendar window at the turn of
\* an observation, and whose start (or stop) hour+minute is exactly
\* hour_tolerance hours from the observation's, is a candidate: the observation
\* is matched, to that slot or to one at most as far; a slot farther than
\* hour_tolerance hours on both edges is never the one assigned.
C4_ToleranceBoundary ==
  \A i \in DOMAIN best_slot_idx :
    \A k \in DOMAIN slots_df :
      /\ ( /\ k \notin UsedBefore(i)
           /\ InCalendarWindow(i, k)
           /\ \/ StartMinutesApart(i, k) = 60 * hour_tolerance
              \/ StopMinutesApart(i, k) = 60 * hour_tolerance )
         => /\ best_slot_idx[i] # 0
            /\ StartDistance(i, best_slot_idx[i]) <= StartDistance(i, k)
            /\ Cardinality(DOMAIN slots_df) = 1 => best_slot_idx[i] = k
      /\ ( /\ StartMinutesApart(i, k) > 60 * hour_tolerance
           /\ StopMinutesApart(i, k) > 60 * hour_tolerance )
         => best_slot_idx[i] # k

\* C4 witness: one observation took a slot exactly hour_tolerance hours away
\* on its only close edge, and another observation stayed unmatched next to an
\* unused in-window slot one minute beyond the tolerance.
C4_Witness ==
  /\ \E i \in DOMAIN best_slot_idx :
       /\ best_slot_idx[i] # 0
       /\ StartMinutesApart(i, best_slot_idx[i]) = 60 * hour_tolerance
       /\ StopMinutesApart(i, best_slot_idx[i]) > 60 * hour_tolerance
  /\ \E i \in DOMAIN best_slot_idx :
       \E k \in DOMAIN slots_df \ UsedBefore(i) :
         /\ best_slot_idx[i] = 0
         /\ InCalendarWindow(i, k)
         /\ StartMinutesApart(i, k) = 60 * hour_tolerance + 1
\* Row j of the match frame carries a slot.
HasSlot(j) == matches_df[j]["startTime"] # Null /\ matches_df[j]["stopTime"] # Null

\* C5: for a matched record the candidate end carries the plan's end
\* hour:minute and lies on the slot's start date plus one day exactly when the
\* plan's end hour is below its start hour, or is 0 while the start hour is
\* not; otherwise on the slot's start date.  In the output, a 23:00-01:00
\* plan row in a slot spanning two calendar days ends on the slot's start date
\* plus one, and a 09:00-17:00 plan row ends on the slot's start date.
C5_MidnightRollover ==
  /\ \A j \in DOMAIN candidate_times :
       HasSlot(j) =>
         LET sh == (plan_df[j]["StartTime"] % Day) \div 3600
             eh == (plan_df[j]["StopTime"] % Day) \div 3600
             em == (plan_df[j]["StopTime"] % 3600) \div 60
             slot_date == matches_df[j]["startTime"] \div Day
             end == candidate_times[j][2]
         IN /\ (end % Day) \div 60 = eh * 60 + em
            /\ IF eh < sh \/ (eh = 0 /\ sh # 0)
                 THEN end \div Day = slot_date + 1
                 ELSE end \div Day = slot_date
  /\ pc = "done" =>
       \A j \in DOMAIN output :
         output[j]["ActualEndTime"] # Null =>
           /\ ( /\ plan_df[j]["StartTime"] % Day = 23 * 3600
                /\ plan_df[j]["StopTime"] % Day = 3600
                /\ output[j]["stopTime"] \div Day = output[j]["startTime"] \div Day + 1 )
              => output[j]["ActualEndTime"] \div Day = output[j]["startTime"] \div Day + 1
           /\ ( /\ plan_df[j]["StartTime"] % Day = 9 * 3600
                /\ plan_df[j]["StopTime"] % Day = 17 * 3600 )
              => output[j]["ActualEndTime"] \div Day = output[j]["startTime"] \div Day

\* C5 witness: a finished run with a 23:00-01:00 row in a two-day slot whose
\* window ends the day after the slot starts, and a row whose end hour equals
\* its start hour, whose candidate end stays on the slot's date.
C5_Witness ==
  /\ pc = "done"
  /\ \E j \in DOMAIN output :
       /\ plan_df[j]["StartTime"] % Day = 23 * 3600
       /\ plan_df[j]["StopTime"] % Day = 3600
       /\ output[j]["ActualEndTime"] # Null
       /\ output[j]["ActualEndTime"] \div Day = output[j]["startTime"] \div Day + 1
  /\ \E j \in DOMAIN output :
       /\ HasSlot(j)
       /\ Hour(plan_df[j]["StartTime"]) = Hour(plan_df[j]["StopTime"])
       /\ candidate_times[j][2] \div Day = output[j]["startTime"] \div Day

\* C6: every non-null window is the candidate window clamped to the slot:
\* the start is the later of candidate start and slot start, the end the
\* earlier of candidate end and slot stop, so
\* slot start <= actual start < actual end <= slot stop.
C6_Clamping ==
  /\ \A j \in DOMAIN adjusted_start_times :
       (adjusted_start_times[j] # Null /\ adjusted_end_times[j] # Null) =>
         LET cs == candidate_times[j][1]
             ce == candidate_times[j][2]
             ss == matches_df[j]["startTime"]
             se == matches_df[j]["stopTime"]
             as == adjusted_start_times[j]
             ae == adjusted_end_times[j]
         IN /\ HasSlot(j)
            /\ as \in {cs, ss} /\ as >= cs /\ as >= ss
            /\ ae \in {ce, se} /\ ae <= ce /\ ae <= se
            /\ ss <= as /\ as < ae /\ ae <= se
            /\ cs < ss => as = ss
            /\ ce > se => ae = se
  /\ pc = "done" =>
       \A j \in DOMAIN output :
         /\ output[j]["ActualStartTime"] = adjusted_start_times[j]
         /\ output[j]["ActualEndTime"] = adjusted_end_times[j]

\* C6 witness: a finished run where one window was clipped to its slot's
\* start and one to its slot's stop.
C6_Witness ==
  /\ pc = "done"
  /\ \E j \in DOMAIN output :
       /\ output[j]["ActualStartTime"] # Null
       /\ candidate_times[j][1] < output[j]["startTime"]
       /\ output[j]["ActualStartTime"] = output[j]["startTime"]
  /\ \E j \in DOMAIN output :
       /\ output[j]["ActualEndTime"] # Null
       /\ candidate_times[j][2] > output[j]["stopTime"]
       /\ output[j]["ActualEndTime"] = output[j]["stopTime"]

\* C7: the run never reaches the error state; a record without a slot gets
\* both actual times null, a record whose clamped start is not before its
\* clamped end gets both null, and in every record the two are null together.
C7_NullsNotErrors ==
  /\ pc # "error"
  /\ \A j \in DOMAIN adjusted_start_times :
       /\ adjusted_start_times[j] = Null <=> adjusted_end_times[j] = Null
       /\ ~HasSlot(j) => adjusted_start_times[j] = Null
       /\ HasSlot(j) =>
            LET cs == candidate_times[j][1]
                ce == candidate_times[j][2]
                ss == matches_df[j]["startTime"]
                se == matches_df[j]["stopTime"]
                clamped_start == IF cs > ss THEN cs ELSE ss
                clamped_end == IF ce < se THEN ce ELSE se
            IN clamped_start >= clamped_end <=> adjusted_start_times[j] = Null
  /\ pc = "done" =>
       /\ Len(output) = Len(plan_df)
       /\ \A j \in DOMAIN output :
            /\ output[j]["ActualStartTime"] = Null <=> output[j]["ActualEndTime"] = Null
            /\ best_slot_idx[j] = 0 => output[j]["ActualStartTime"] = Null

\* C7 witness: a finished run with an observation that had no candidate at
\* all and a matched observation whose clamped window is empty.
C7_Witness ==
  /\ pc = "done"
  /\ \E j \in DOMAIN output :
       /\ Eligible(j) = {}
       /\ best_slot_idx[j] = 0
       /\ output[j]["ActualStartTime"] = Null
       /\ output[j]["ActualEndTime"] = Null
  /\ \E j \in DOMAIN output :
       /\ best_slot_idx[j] # 0
       /\ candidate_times[j][1] # Null
       /\ output[j]["ActualStartTime"] = Null
       /\ output[j]["ActualEndTime"] = Null

\* C8: with tolerances 2 hours / 3 days, the plan row day 10 22:00 - day 11
\* 02:00 and the slot day 10 21:30 - day 11 03:00 are matched, and the
\* adjusted record runs from day 10 22:00 to day 11 02:00.
C8_Scenario ==
  ( /\ pc = "done"
    /\ hour_tolerance = 2 /\ day_tolerance = 3
    /\ Len(plan_df) = 1 /\ Len(slots_df) = 1
    /\ plan_df[1]["StartTime"] = 10 * Day + 22 * 3600
    /\ plan_df[1]["StopTime"] = 11 * Day + 2 * 3600
    /\ slots_df[1]["startTime"] = 10 * Day + 21 * 3600 + 30 * 60
    /\ slots_df[1]["stopTime"] = 11 * Day + 3 * 3600 )
  => /\ best_slot_idx = <<1>>
     /\ output[1]["startTime"] = 10 * Day + 21 * 3600 + 30 * 60
     /\ output[1]["ActualStartTime"] = 10 * Day + 22 * 3600
     /\ output[1]["ActualEndTime"] = 11 * Day + 2 * 3600

\* C8 witness: the scenario's run has finished.
C8_Witness ==
  /\ pc = "done"
  /\ hour_tolerance = 2 /\ day_tolerance = 3
  /\ Len(plan_df) = 1 /\ Len(slots_df) = 1
  /\ plan_df[1]["StartTime"] = 10 * Day + 22 * 3600
  /\ plan_df[1]["StopTime"] = 11 * Day + 2 * 3600
  /\ slots_df[1]["startTime"] = 10 * Day + 21 * 3600 + 30 * 60
  /\ slots_df[1]["stopTime"] = 11 * Day + 3 * 3600
  /\ output[1]["ActualEndTime"] = 11 * Day + 2 * 3600

\* The columns of the output frame.
OutputColumns == PlanColumns \cup slot_columns \cup {"ActualStartTime", "ActualEndTime"}

\* The slot table's own columns (those the plan table does not have too).
OwnSlotColumns == slot_columns \ PlanColumns

\* C9 as claimed: every output record has the same fields, and every record
\* that is unmatched or whose window is degenerate has null in every
\* slot-derived field (the slot's own columns and the two actual times).
C9_UniformSchemaNulls ==
  pc = "done" =>
    \A j \in DOMAIN output :
      /\ DOMAIN output[j] = OutputColumns
      /\ (best_slot_idx[j] = 0 \/ output[j]["ActualStartTime"] = Null) =>
           \A c \in OwnSlotColumns \cup {"ActualStartTime", "ActualEndTime"} :
             output[j][c] = Null

\* C9 amended: every output record has the same fields; an unmatched record
\* has null in every column of the slot table's own and in both actual times;
\* a matched record whose window is degenerate has null in both actual times
\* and keeps its slot's values in the slot columns.
C9_UniformSchemaNullsAmended ==
  pc = "done" =>
    \A j \in DOMAIN output :
      /\ DOMAIN output[j] = OutputColumns
      /\ best_slot_idx[j] = 0 =>
           \A c \in OwnSlotColumns \cup {"ActualStartTime", "ActualEndTime"} :
             output[j][c] = Null
      /\ (best_slot_idx[j] # 0 /\ output[j]["ActualStartTime"] = Null) =>
           /\ output[j]["ActualEndTime"] = Null
           /\ \A c \in slot_columns : output[j][c] = slots_df[best_slot_idx[j]][c]
           /\ output[j]["startTime"] # Null

\* C9 witness: a finished run with an unmatched record and a matched record
\* whose window is degenerate.
C9_Witness ==
  /\ pc = "done"
  /\ \E j \in DOMAIN output : best_slot_idx[j] = 0
  /\ \E j \in DOMAIN output :
       /\ best_slot_idx[j] # 0
       /\ output[j]["ActualStartTime"] = Null
       /\ output[j]["startTime"] # Null

\* C10: every plan column of every output record, matched or not, has the
\* value it had in the plan row, whatever the slot table's columns are called.
C10_PlanColumnsPassThrough ==
  pc = "done" =>
    \A j \in DOMAIN output :
      \A c \in PlanColumns : output[j][c] = plan_df[j][c]
\* Slot k would have passed both filters for observation i had it been unused.
PassesFilters(i, k) ==
  /\ InCalendarWindow(i, k)
  /\ \/ StartMinutesApart(i, k) <= 60 * hour_tolerance
     \/ StopMinutesApart(i, k) <= 60 * hour_tolerance

\* C11: a slot assigned to the observation at position i is never given to a
\* later observation, even one it passes both filters for and is closest to;
\* the later observation gets the closest slot still unused and eligible, or
\* none when no such slot is left; the final record of observation i carries
\* the slot assigned at its turn.
C11_FirstComeFirstServed ==
  /\ \A i, j \in DOMAIN best_slot_idx :
       (i < j /\ best_slot_idx[i] # 0) =>
         /\ best_slot_idx[j] # best_slot_idx[i]
         /\ best_slot_idx[j] = 0 => Eligible(j) = {}
         /\ best_slot_idx[j] # 0 =>
              /\ best_slot_idx[j] \in Eligible(j)
              /\ \A k \in Eligible(j) :
                   StartDistance(j, best_slot_idx[j]) <= StartDistance(j, k)
  /\ pc = "done" =>
       \A i \in DOMAIN output :
         best_slot_idx[i] # 0 =>
           \A c \in slot_columns : output[i][c] = slots_df[best_slot_idx[i]][c]

\* C11 witness: a finished run over two different observations and two slots
\* in which the first observation took a slot that passes both filters for
\* the second one, and the second one got none.
C11_Witness ==
  /\ pc = "done"
  /\ Len(best_slot_idx) = 2
  /\ best_slot_idx[1] # 0
  /\ PassesFilters(2, best_slot_idx[1])
  /\ plan_df[1] # plan_df[2]
  /\ best_slot_idx[2] = 0
  /\ Len(slots_df) = 2

\* C12: at its turn an observation is assigned a slot exactly when some slot
\* not yet consumed has start and stop inside
\* [StartTime - day_tolerance days, StopTime + day_tolerance days] and is
\* within hour_tolerance on an edge; the assigned slot is such a slot; a slot
\* in the calendar range but beyond the tolerance on both edges is never
\* assigned.
C12_MatchIffCandidate ==
  \A i \in DOMAIN best_slot_idx :
    /\ best_slot_idx[i] # 0 <=>
         \E k \in DOMAIN slots_df :
           /\ \A j \in 1..(i - 1) : best_slot_idx[j] # k
           /\ slots_df[k]["startTime"] >= plan_df[i]["StartTime"] - day_tolerance * Day
           /\ slots_df[k]["startTime"] <= plan_df[i]["StopTime"] + day_tolerance * Day
           /\ slots_df[k]["stopTime"] >= plan_df[i]["StartTime"] - day_tolerance * Day
           /\ slots_df[k]["stopTime"] <= plan_df[i]["StopTime"] + day_tolerance * Day
           /\ \/ StartMinutesApart(i, k) <= 60 * hour_tolerance
              \/ StopMinutesApart(i, k) <= 60 * hour_tolerance
    /\ best_slot_idx[i] # 0 =>
         /\ best_slot_idx[i] \notin UsedBefore(i)
         /\ slots_df[best_slot_idx[i]]["startTime"]
              >= plan_df[i]["StartTime"] - day_tolerance * Day
         /\ slots_df[best_slot_idx[i]]["stopTime"]
              <= plan_df[i]["StopTime"] + day_tolerance * Day
         /\ \/ StartMinutesApart(i, best_slot_idx[i]) <= 60 * hour_tolerance
            \/ StopMinutesApart(i, best_slot_idx[i]) <= 60 * hour_tolerance

\* C12 witness: the only slot of the table is in the calendar range of the
\* only observation but beyond the tolerance on both edges, and the
\* observation stayed unmatched.
C12_Witness ==
  /\ pc = "done"
  /\ Len(plan_df) = 1
  /\ Len(slots_df) = 1
  /\ InCalendarWindow(1, 1)
  /\ StartMinutesApart(1, 1) > 60 * hour_tolerance
  /\ StopMinutesApart(1, 1) > 60 * hour_tolerance
  /\ best_slot_idx[1] = 0

\* C13: an unused slot inside the calendar window is a candidate as soon as
\* one edge is within hour_tolerance, whatever the other edge: the observation
\* is then matched, to that slot or to one at most as far.
C13_EitherEdge ==
  \A i \in DOMAIN best_slot_idx :
    \A k \in DOMAIN slots_df \ UsedBefore(i) :
      InCalendarWindow(i, k) =>
        /\ StopMinutesApart(i, k) <= 60 * hour_tolerance =>
             /\ best_slot_idx[i] # 0
             /\ StartDistance(i, best_slot_idx[i]) <= StartDistance(i, k)
        /\ StartMinutesApart(i, k) <= 60 * hour_tolerance =>
             /\ best_slot_idx[i] # 0
             /\ StartDistance(i, best_slot_idx[i]) <= StartDistance(i, k)

\* C13 witness: one observation was assigned a slot whose stop edge alone is
\* within the tolerance, another a slot whose start edge alone is.
C13_Witness ==
  /\ \E i \in DOMAIN best_slot_idx :
       /\ best_slot_idx[i] # 0
       /\ StopMinutesApart(i, best_slot_idx[i]) <= 60 * hour_tolerance
       /\ StartMinutesApart(i, best_slot_idx[i]) > 60 * hour_tolerance
  /\ \E i \in DOMAIN best_slot_idx :
       /\ best_slot_idx[i] # 0
       /\ StartMinutesApart(i, best_slot_idx[i]) <= 60 * hour_tolerance
       /\ StopMinutesApart(i, best_slot_idx[i]) > 60 * hour_tolerance
\* C15: the adjuster leaves every column of every match record as the matcher
\* built it (the slot columns of a degenerate record included), leaves the
\* assignment alone, adds exactly ActualStartTime and ActualEndTime, and gives
\* equal records equal actual times.
C15_AdjusterOnlyAppends ==
  /\ pc \in {"adjust", "done"} =>
       /\ Len(matches_df) = Len(matches)
       /\ \A j \in DOMAIN matches_df :
            \A c \in DOMAIN matches[j] : matches_df[j][c] = matches[j][c]
  /\ pc = "done" =>
       /\ Len(output) = Len(matches_df)
       /\ \A j \in DOMAIN output :
            /\ DOMAIN output[j] = DOMAIN matches_df[j] \cup {"ActualStartTime", "ActualEndTime"}
            /\ {"ActualStartTime", "ActualEndTime"} \cap DOMAIN matches_df[j] = {}
            /\ \A c \in DOMAIN matches_df[j] : output[j][c] = matches_df[j][c]
            /\ best_slot_idx[j] # 0 =>
                 \A c \in slot_columns : output[j][c] = slots_df[best_slot_idx[j]][c]
            /\ best_slot_idx[j] = 0 => output[j]["startTime"] = Null
       /\ \A i, j \in DOMAIN output :
            matches_df[i] = matches_df[j] =>
              /\ output[i]["ActualStartTime"] = output[j]["ActualStartTime"]
              /\ output[i]["ActualEndTime"] = output[j]["ActualEndTime"]

\* C15 witness: a finished run with a matched record whose window is
\* degenerate, still carrying its slot's times, and a record with a window.
C15_Witness ==
  /\ pc = "done"
  /\ \E j \in DOMAIN output :
       /\ output[j]["ActualStartTime"] = Null
       /\ output[j]["startTime"] # Null
       /\ output[j]["startTime"] = slots_df[best_slot_idx[j]]["startTime"]
  /\ \E j \in DOMAIN output : output[j]["ActualStartTime"] # Null

\* C16: no window is computed before every observation has been matched, and
\* a slot once assigned stays in the used set and is given to no other
\* observation, also when the window of the observation that took it is
\* degenerate.
C16_ConsumedStaysConsumed ==
  /\ (pc # "match" \/ candidate_times # << >>) =>
       /\ Len(matches) = Len(plan_df)
       /\ Len(best_slot_idx) = Len(plan_df)
  /\ \A i \in DOMAIN best_slot_idx :
       best_slot_idx[i] # 0 => best_slot_idx[i] \in used_slots
  /\ pc = "done" =>
       \A i \in DOMAIN output :
         (best_slot_idx[i] # 0 /\ output[i]["ActualStartTime"] = Null) =>
           /\ best_slot_idx[i] \in used_slots
           /\ \A j \in DOMAIN output : j # i => best_slot_idx[j] # best_slot_idx[i]

\* C16 witness: the first observation took a slot and got a degenerate
\* window; the second one passes both filters for that slot and would have had
\* a window in it, and stayed unmatched.
C16_Witness ==
  /\ pc = "done"
  /\ Len(plan_df) = 2
  /\ best_slot_idx[1] # 0
  /\ output[1]["ActualStartTime"] = Null
  /\ output[1]["ActualEndTime"] = Null
  /\ best_slot_idx[2] = 0
  /\ PassesFilters(2, best_slot_idx[1])
  /\ AdjustedWindow(MatchedRecord(plan_df[2], slots_df[best_slot_idx[1]])) # <<Null, Null>>
\* C14: every call starts matching with an empty used set; while a call runs
\* its plan, slot table and tolerances stay what it was called with; and a
\* call on the arguments of the first call returns what the first call
\* returned, whether it follows a call on the same data or one on other data.
C14_DeterministicIsolatedRuns ==
  /\ inputs = called_with
  /\ (pc = "match" /\ obs_i = 1) => used_slots = {}
  /\ used_slots \subseteq DOMAIN slots_df
  /\ (pc = "done" /\ call > 1 /\ called_with = first_run[1]) => output = first_run[2]

\* C14 witness: the third call, on the first call's data after a call on the
\* other data, has finished with a slot assigned, as in the first call.
C14_Witness ==
  /\ pc = "done"
  /\ call = 3
  /\ called_with = first_run[1]
  /\ called_with # OtherData
  /\ \E j \in DOMAIN best_slot_idx : best_slot_idx[j] = 1
  /\ output = first_run[2]
\* Distance of two times of day the short way round the clock, in minutes.
WrappedMinutes(d) == IF d <= 24 * 60 - d THEN d ELSE 24 * 60 - d

\* C17: the filter measures each edge by the plain absolute difference of
\* minutes since midnight, never round the clock: a slot is assigned only if
\* that plain difference is within hour_tolerance on an edge, so a 23:30
\* observation edge and a 00:30 slot edge are 23 hours apart and that edge
\* passes only from hour_tolerance 23 on.
C17_NoWrapAroundMidnight ==
  \A i \in DOMAIN best_slot_idx :
    \A k \in DOMAIN slots_df :
      LET os == Hour(plan_df[i]["StartTime"]) * 60 + Minute(plan_df[i]["StartTime"])
          oe == Hour(plan_df[i]["StopTime"]) * 60 + Minute(plan_df[i]["StopTime"])
          ss == Hour(slots_df[k]["startTime"]) * 60 + Minute(slots_df[k]["startTime"])
          se == Hour(slots_df[k]["stopTime"]) * 60 + Minute(slots_df[k]["stopTime"])
      IN /\ best_slot_idx[i] = k =>
              \/ Abs(os - ss) <= 60 * hour_tolerance
              \/ Abs(oe - se) <= 60 * hour_tolerance
         /\ ( /\ os = 23 * 60 + 30
              /\ ss = 30
              /\ Abs(oe - se) > 60 * hour_tolerance )
            => /\ best_slot_idx[i] = k => hour_tolerance >= 23
               /\ ( /\ hour_tolerance >= 23
                    /\ k \notin UsedBefore(i)
                    /\ InCalendarWindow(i, k) ) => best_slot_idx[i] # 0

\* C17 witness: an observation starting 23:30 stayed unmatched although an
\* unused slot in its calendar window starts at 00:30, one hour later round
\* the clock, with an hour tolerance of 2.
C17_Witness ==
  /\ hour_tolerance = 2
  /\ \E i \in DOMAIN best_slot_idx :
       \E k \in DOMAIN slots_df \ UsedBefore(i) :
         /\ plan_df[i]["StartTime"] % Day = 23 * 3600 + 30 * 60
         /\ slots_df[k]["startTime"] % Day = 30 * 60
         /\ InCalendarWindow(i, k)
         /\ WrappedMinutes(StartMinutesApart(i, k)) = 60
         /\ StartMinutesApart(i, k) = 23 * 60
         /\ best_slot_idx[i] = 0

\* C18: a non-null window starts on the calendar date of its slot's start
\* and ends on that date or the day after, wherever the plan row's dates are.
C18_AnchoredToSlotDate ==
  pc = "done" =>
    \A j \in DOMAIN output :
      output[j]["ActualStartTime"] # Null =>
        /\ output[j]["ActualStartTime"] \div Day = output[j]["startTime"] \div Day
        /\ \/ output[j]["ActualEndTime"] \div Day = output[j]["startTime"] \div Day
           \/ output[j]["ActualEndTime"] \div Day = output[j]["startTime"] \div Day + 1

\* C18 witness: a window on its slot's date, the day before the plan row's,
\* that overlaps the plan row's own window, and a window ending the day after
\* its slot's start.
C18_Witness ==
  /\ pc = "done"
  /\ \E j \in DOMAIN output :
       /\ output[j]["ActualStartTime"] # Null
       /\ output[j]["startTime"] \div Day = plan_df[j]["StartTime"] \div Day - 1
       /\ output[j]["stopTime"] > plan_df[j]["StartTime"]
       /\ output[j]["ActualStartTime"] \div Day = output[j]["startTime"] \div Day
  /\ \E j \in DOMAIN output :
       /\ output[j]["ActualEndTime"] # Null
       /\ output[j]["ActualEndTime"] \div Day = output[j]["startTime"] \div Day + 1
====
